---- MODULE Spec2Model ----
(***************************************************************************)
(* terminal_notes: the navigation/viewport state machine                   *)
(* (src/src/navigation_state.rs), the table renderer (src/src/render.rs)   *)
(* and the interactive main loop with its chord key buffer                 *)
(* (src/src/main.rs).                                                      *)
(*                                                                         *)
(* Two specifications share this module.  Spec is the NavigationState of   *)
(* navigation_state.rs driven through its public operations, with the      *)
(* list size set by TableDisplay::new / set_rows.  RunSpec (further down)  *)
(* is the main loop of main.rs, which carries its own three-field          *)
(* NavigationState.                                                        *)
(***************************************************************************)
EXTENDS Integers, Sequences, FiniteSets, TLC

VARIABLES
  nav,        \* navigation_state.rs: the NavigationState record
  phase,      \* history: "setup" until the first selection move, "fixed" while
              \* list_size has not been set since, "resized" afterwards
  state,      \* main.rs: the NavigationState of the session
  files,      \* the notes directory: the files the provider lists
  note_list,  \* main.rs run: the list fetched last
  key_buffer, \* main.rs run: the pending keys of a chord
  pc,         \* main.rs run: where the loop is blocked reading input
  profile,    \* the build profile: "debug" panics on integer overflow,
              \* "release" wraps
  clock,      \* the file system's time, one tick per created file
  emitted,    \* history: the logical actions the last key event selected
  called,     \* history: the provider mutations the last step invoked
  warning     \* history: the warning the last step wrote to the terminal

navVars == <<nav, phase>>
runVars == <<state, files, note_list, key_buffer, pc, profile, clock, emitted,
            called, warning>>
vars == <<nav, phase, state, files, note_list, key_buffer, pc, profile, clock,
          emitted, called, warning>>

----------------------------------------------------------------------------
(* Bounds of the model *)

\* terminal heights range over MinHeight..MaxHeight rows
MaxHeight == 7
\* TableDisplay rows: lists of 0..MaxList items
MaxList == 10
\* increments and decrements of 0..MaxDelta rows, and one of U16 rows
MaxDelta == 2
\* the usize selection index is followed over 0..MaxList and U16..MaxIndex
MaxIndex == 65546

(* Program constants *)

\* list_size, visible_window and window_buffer are u16: `as u16` keeps 16 bits
U16 == 65536
\* NavigationState::new: window_buffer: 2
WINDOW_BUFFER == 2
\* NavigationState::new: list_height = h - 2 (one header row, one footer row)
HEADER_FOOTER_ROWS == 2
\* the smallest terminal height for which new() computes h - 2 - 1 without
\* leaving u16
MinHeight == 3

SortFields == {"Modified", "Size", "Name"}
SortDirs == {"Asc", "Desc"}
TermHeights == MinHeight..MaxHeight
ListSizes == 0..MaxList
Deltas == (0..MaxDelta) \cup {U16}

AsU16(x) == x % U16

\* the values of selected_index the model follows
Followed(i) == i <= MaxList \/ (U16 <= i /\ i <= MaxIndex)

----------------------------------------------------------------------------
(* navigation_state.rs *)

\* NavigationState::new(selected_index), on a terminal of h rows
new(selected_index, h) ==
  LET list_height == h - HEADER_FOOTER_ROWS
  IN  [ selected_index |-> selected_index,
        sort_field     |-> "Modified",
        sort_dir       |-> "Desc",
        visible_window |-> <<0, list_height - 1>>,
        list_size      |-> 0,
        window_buffer  |-> WINDOW_BUFFER ]

get_window_size(s) == s.visible_window[2] - s.visible_window[1]

\* the loop sliding until the window has passed new_index
RECURSIVE IncrementSlide_Past(_, _, _, _)
IncrementSlide_Past(window_start, visibility_range, new_index16, list_size) ==
  LET window_end == window_start + visibility_range
  IN  IF window_end > new_index16 \/ window_end > list_size
      THEN window_start
      ELSE IncrementSlide_Past(window_start + 1, visibility_range, new_index16, list_size)

\* the loop of increment_selected_index: the first window_start, counting up
\* from the current one, whose window reaches new_index or passes list_size
RECURSIVE IncrementSlide(_, _, _, _)
IncrementSlide(window_start, visibility_range, new_index16, list_size) ==
  LET window_end == window_start + visibility_range
  IN  IF window_end >= new_index16 \/ window_end > list_size
      THEN window_start
      ELSE IncrementSlide(window_start + 1, visibility_range, new_index16, list_size)

\* increment_selected_index moving the start of the window and not its end
increment_selected_index_KeepEnd(s, increment) ==
  LET new_index == s.selected_index + increment
      new_index16 == AsU16(new_index)
  IN  IF new_index16 < s.list_size
      THEN LET vw == IF s.visible_window[2] < new_index16 + s.window_buffer
                     THEN LET visibility_range == s.visible_window[2] - s.visible_window[1]
                              window_start == IncrementSlide(s.visible_window[1],
                                                visibility_range, new_index16, s.list_size)
                          IN  <<window_start, s.visible_window[2]>>
                     ELSE s.visible_window
           IN  [s EXCEPT !.visible_window = vw, !.selected_index = new_index]
      ELSE s

increment_selected_index(s, increment) ==
  LET new_index == s.selected_index + increment
      new_index16 == AsU16(new_index)
  IN  IF new_index16 < s.list_size
      THEN LET vw == IF s.visible_window[2] < new_index16 + s.window_buffer
                     THEN LET visibility_range == s.visible_window[2] - s.visible_window[1]
                              window_start == IncrementSlide(s.visible_window[1],
                                                visibility_range, new_index16, s.list_size)
                          IN  <<window_start, window_start + visibility_range>>
                     ELSE s.visible_window
           IN  [s EXCEPT !.visible_window = vw, !.selected_index = new_index]
      ELSE s

\* the loop of decrement_selected_index: the first window_start, counting
\* down from the current one, that leaves window_buffer rows above new_index
\* or is 0
RECURSIVE DecrementSlide(_, _, _)
DecrementSlide(window_start, window_buffer, new_index16) ==
  IF window_start + window_buffer <= new_index16 \/ window_start = 0
  THEN window_start
  ELSE DecrementSlide(window_start - 1, window_buffer, new_index16)

\* usize::saturating_sub
saturating_sub(a, b) == IF b > a THEN 0 ELSE a - b

decrement_selected_index(s, decrement) ==
  LET new_index == saturating_sub(s.selected_index, decrement)
      new_index16 == AsU16(new_index)
      vw == IF s.visible_window[1] + s.window_buffer > new_index16
            THEN LET visibility_range == s.visible_window[2] - s.visible_window[1]
                     window_start == DecrementSlide(s.visible_window[1],
                                                    s.window_buffer, new_index16)
                 IN  <<window_start, window_start + visibility_range>>
            ELSE s.visible_window
  IN  [s EXCEPT !.visible_window = vw, !.selected_index = new_index]

\* set_list_size clamping the selection to the last row
set_list_size_Clamp(s, list_size) ==
  [s EXCEPT !.list_size = list_size,
            !.selected_index = IF list_size > 0 /\ s.selected_index >= list_size
                               THEN list_size - 1 ELSE s.selected_index]

set_list_size(s, list_size) == [s EXCEPT !.list_size = list_size]

set_selected_index(s, new_index) ==
  IF new_index > s.selected_index
  THEN increment_selected_index(s, new_index - s.selected_index)
  ELSE decrement_selected_index(s, s.selected_index - new_index)

\* sort moving the selection back to the first row
sort_ResetSelection(s, sort_field) ==
  LET sort_dir == IF s.sort_field = sort_field
                  THEN (IF s.sort_dir = "Desc" THEN "Asc" ELSE "Desc")
                  ELSE "Desc"
  IN  [s EXCEPT !.sort_dir = sort_dir, !.sort_field = sort_field,
                !.selected_index = 0]

\* sort with the direction toggled also when the field changes
sort_ToggleAlways(s, sort_field) ==
  [s EXCEPT !.sort_dir = IF s.sort_dir = "Desc" THEN "Asc" ELSE "Desc",
            !.sort_field = sort_field]

sort(s, sort_field) ==
  LET sort_dir == IF s.sort_field = sort_field
                  THEN (IF s.sort_dir = "Desc" THEN "Asc" ELSE "Desc")
                  ELSE "Desc"
  IN  [s EXCEPT !.sort_dir = sort_dir, !.sort_field = sort_field]

----------------------------------------------------------------------------
(* render.rs *)

\* the build profiles: with overflow checks (debug) a u16 subtraction that
\* leaves the type panics, without them (release) it wraps
Builds == {"debug", "release"}

\* draw: `h2 - 2` in u16
DrawUpper(h2, build) ==
  IF h2 >= 2 THEN h2 - 2
  ELSE IF build = "debug" THEN -1   \* the panic, told apart by DrawPanics
  ELSE h2 - 2 + U16

DrawPanics(s, build) == s.visible_window[2] < 2 /\ build = "debug"

\* the loop of TableDisplay::draw over rows index..nrows-1, the next emitted
\* row going to terminal row render_index: the emitted rows in order, each
\* with its list index, its terminal row and whether it is highlighted
RECURSIVE DrawRows(_, _, _, _, _)
DrawRows(s, nrows, build, index, render_index) ==
  IF index >= nrows THEN <<>>
  ELSE IF index < s.visible_window[1]
          \/ index > DrawUpper(s.visible_window[2], build)
       THEN DrawRows(s, nrows, build, index + 1, render_index)
       ELSE <<[ index     |-> index,
                row       |-> render_index,
                highlight |-> (s.selected_index = index) ]>>
            \o DrawRows(s, nrows, build, index + 1, render_index + 1)

\* the body of TableDisplay::draw for a table whose rows are the list_size
\* items its constructor and set_rows told the state about
draw(s, build) == DrawRows(s, s.list_size, build, 0, 2)

\* draw_footer: the terminal row of the footer
draw_footer(s) == get_window_size(s) + 1

----------------------------------------------------------------------------
(* The state machine of NavigationState *)

\* the session's state: NavigationState::new(0) on a terminal of h rows
\* the value of the variables of the machine a specification leaves out
NotInUse == "not in use"

Init ==
  /\ \E h \in TermHeights : nav = new(0, h)
  /\ phase = "setup"
  /\ state = NotInUse /\ files = NotInUse /\ note_list = NotInUse
  /\ key_buffer = NotInUse /\ pc = NotInUse /\ profile = NotInUse
  /\ clock = NotInUse /\ emitted = NotInUse /\ called = NotInUse
  /\ warning = NotInUse

Moved == IF phase = "setup" THEN "fixed" ELSE phase

\* TableDisplay::new and TableDisplay::set_rows: state.set_list_size(rows.len())
SetListSize(n) ==
  /\ nav' = set_list_size(nav, n)
  /\ phase' = IF phase = "setup" THEN "setup" ELSE "resized"
  /\ UNCHANGED runVars

Increment(by) ==
  /\ nav' = increment_selected_index(nav, by)
  /\ Followed(nav'.selected_index)
  /\ phase' = Moved
  /\ UNCHANGED runVars

Decrement(by) ==
  /\ nav' = decrement_selected_index(nav, by)
  /\ Followed(nav'.selected_index)
  /\ phase' = Moved
  /\ UNCHANGED runVars

SetSelected(i) ==
  /\ nav' = set_selected_index(nav, i)
  /\ Followed(nav'.selected_index)
  /\ phase' = Moved
  /\ UNCHANGED runVars

Sort(f) ==
  /\ nav' = sort(nav, f)
  /\ UNCHANGED phase
  /\ UNCHANGED runVars

Next ==
  \/ \E n \in ListSizes : SetListSize(n)
  \/ \E by \in Deltas : Increment(by)
  \/ \E by \in Deltas : Decrement(by)
  \/ \E i \in ListSizes : SetSelected(i)
  \/ \E f \in SortFields : Sort(f)

Spec == Init /\ [][Next]_vars

----------------------------------------------------------------------------
(* Strings, as sequences of one-character strings *)

\* the bytes of the characters the model's strings are made of
CharCode(c) ==
  CASE c = " " -> 32
    [] c = "." -> 46
    [] c = "/" -> 47
    [] c = "a" -> 97
    [] c = "d" -> 100
    [] c = "t" -> 116
    [] c = "x" -> 120

\* str::cmp: byte-wise lexicographic order
RECURSIVE StrLess(_, _)
StrLess(a, b) ==
  IF b = <<>> THEN FALSE
  ELSE IF a = <<>> THEN TRUE
  ELSE IF CharCode(Head(a)) # CharCode(Head(b))
       THEN CharCode(Head(a)) < CharCode(Head(b))
       ELSE StrLess(Tail(a), Tail(b))

\* str::contains
Contains(s, sub) ==
  \E i \in 1..(Len(s) - Len(sub) + 1) : SubSeq(s, i, i + Len(sub) - 1) = sub

\* str::trim
RECURSIVE Trim(_)
Trim(s) ==
  IF s = <<>> THEN s
  ELSE IF Head(s) = " " THEN Trim(Tail(s))
  ELSE IF s[Len(s)] = " " THEN Trim(SubSeq(s, 1, Len(s) - 1))
  ELSE s

\* the last position of character c in s, 0 when there is none
LastIndexOf(s, c) ==
  IF \E i \in 1..Len(s) : s[i] = c
  THEN CHOOSE i \in 1..Len(s) : s[i] = c /\ \A j \in (i + 1)..Len(s) : s[j] # c
  ELSE 0

\* Path::file_name: the last component of the path
FileName(path) == SubSeq(path, LastIndexOf(path, "/") + 1, Len(path))

\* Path::extension is Some: the file name has a '.' that is not its first
\* character (and the file name is not "..")
HasExtension(path) ==
  LET file_name == FileName(path)
  IN  file_name # <<".", ".">> /\ LastIndexOf(file_name, ".") > 1

----------------------------------------------------------------------------
(* config.rs: the configuration of the session, in short strings *)

\* notes_directory ("~/.notes/" in the generated configuration)
NotesDirectory == <<"/">>
\* default_notes_file ("default_notes.txt")
DefaultNotesFile == <<"d", ".", "t">>
\* default_file_extension ("txt")
DefaultFileExtension == <<"t">>

----------------------------------------------------------------------------
(* Bounds and inputs of the main loop *)

\* files are created while the file system's clock is below MaxClock
MaxClock == 3
\* the selection of main.rs is followed over 0..MaxSel and at USIZE_MAX
MaxSel == 4

\* usize::MAX, of a 32-bit target
USIZE_MAX == 2147483647
\* the chord timeout, in milliseconds
CHORD_TIMEOUT == 300

\* the keys read in the main loop: "Enter" is Key::Char('\n'), "x" any key
\* without a binding
Keys == {"g", "d", "j", "k", "G", "q", "s", "r", "n", "Enter", "x"}
\* milliseconds since the previous key was accepted
Elapsed == {100, 400}
\* the keys read by prompt_yesno, "x" any other key
YesNoKeys == {"y", "Y", "n", "N", "x"}
\* the keys read in sort-mode, "x" any other key ('q' among them)
SortModeKeys == {"s", "n", "m", "x"}
\* the lines typed at a prompt
Lines == { <<>>, <<" ">>, <<"a">>, <<" ", "a", " ">>, <<"a", ".", "t">>,
           <<"d">>, <<"x", "d", ".", "t">> }

File(name, modified, size) == [name |-> name, modified |-> modified, size |-> size]

\* the notes directory when the session starts: the default notes file
\* alone, or with one other note
InitialDirs ==
  { { File(DefaultNotesFile, 0, 1) },
    { File(<<"a", ".", "t">>, 0, 2), File(DefaultNotesFile, 1, 1) } }

RunFollowed(i) == i <= MaxSel \/ i = USIZE_MAX

----------------------------------------------------------------------------
(* providers/file_system_provider.rs *)

\* get_notes, the map over the directory entries: the NoteEntry of a file
NoteEntry(f) ==
  [ path       |-> NotesDirectory \o f.name,
    name       |-> f.name,
    modified   |-> f.modified,
    is_default |-> (f.name = DefaultNotesFile),
    size       |-> f.size ]

\* get_notes, the comparator of sort_by: a is ordered strictly before b
Before(a, b, sort_field, sort_dir) ==
  LET lt(x, y) == CASE sort_field = "Modified" -> x.modified < y.modified
                    [] sort_field = "Size"     -> x.size < y.size
                    [] sort_field = "Name"     -> StrLess(x.name, y.name)
  IN  IF sort_dir = "Asc" THEN lt(a, b) ELSE lt(b, a)

\* get_notes: the lists it may return, every entry of the directory once and
\* in the comparator's order (entries that compare equal stay in read_dir's
\* order, which the file system chooses)
get_notes(fs, sort_field, sort_dir) ==
  LET entries == { NoteEntry(f) : f \in fs }
      n == Cardinality(entries)
  IN  { l \in [1..n -> entries] :
          /\ \A i, j \in 1..n : i # j => l[i] # l[j]
          /\ \A i, j \in 1..n : i < j => ~Before(l[j], l[i], sort_field, sort_dir) }

\* note_exists: Path::exists
note_exists(fs, path) == \E f \in fs : NotesDirectory \o f.name = path

\* delete_note: fs::remove_file
delete_note(fs, note) == { f \in fs : NotesDirectory \o f.name # note.path }

\* rename_note: fs::rename, which replaces a file already at new_path
rename_note(fs, note, new_path) ==
  { f \in fs : NotesDirectory \o f.name # note.path
               /\ NotesDirectory \o f.name # new_path }
  \cup { File(FileName(new_path), note.modified, note.size) }

\* create_note: fs::File::create, which truncates a file already at the path
create_note(fs, path, now) ==
  { f \in fs : NotesDirectory \o f.name # path } \cup { File(FileName(path), now, 0) }

----------------------------------------------------------------------------
(* main.rs *)

\* NavigationState::new of main.rs
main_new(selected_index) ==
  [ selected_index |-> selected_index,
    sort_field     |-> "Modified",
    sort_dir       |-> "Asc" ]

main_set_selected_index(st, new_index) == [st EXCEPT !.selected_index = new_index]

main_sort(st, sort_field) ==
  LET sort_dir == IF st.sort_field = sort_field
                  THEN (IF st.sort_dir = "Desc" THEN "Asc" ELSE "Desc")
                  ELSE "Desc"
  IN  [st EXCEPT !.sort_dir = sort_dir, !.sort_field = sort_field]

\* usize::saturating_add
saturating_add(a, b) == IF a > USIZE_MAX - b THEN USIZE_MAX ELSE a + b

\* a - b in usize without overflow checks
WrappingSub(a, b) == IF a >= b THEN a - b ELSE USIZE_MAX - (b - a) + 1

\* a - b in usize panics under overflow checks when b > a
SubPanics(a, b) == profile = "debug" /\ b > a

\* the dispatch that re-seeds the buffer on the timeout only
Dispatch_NoReseed(buffer, event, elapsed) ==
  LET pushed == Append(buffer, event)
  IN  IF pushed = <<"g", "g">> THEN [chord |-> "JumpToTop", buffer |-> <<>>]
      ELSE IF pushed = <<"d", "d">> THEN [chord |-> "Delete", buffer |-> <<>>]
      ELSE IF elapsed > CHORD_TIMEOUT
           THEN [chord |-> "None", buffer |-> <<event>>]
           ELSE [chord |-> "None", buffer |-> pushed]

\* the dispatch with a delete chord that leaves its second key in the buffer
Dispatch_ChordKeepsKey(buffer, event, elapsed) ==
  LET pushed == Append(buffer, event)
  IN  IF pushed = <<"g", "g">> THEN [chord |-> "JumpToTop", buffer |-> <<>>]
      ELSE IF pushed = <<"d", "d">> THEN [chord |-> "Delete", buffer |-> <<event>>]
      ELSE IF Len(pushed) = 2 \/ elapsed > CHORD_TIMEOUT
           THEN [chord |-> "None", buffer |-> <<event>>]
           ELSE [chord |-> "None", buffer |-> pushed]

\* run, lines 310-358: the key buffer after a key event and the chord the
\* event completed
Dispatch(buffer, event, elapsed) ==
  LET pushed == Append(buffer, event)
  IN  IF pushed = <<"g", "g">> THEN [chord |-> "JumpToTop", buffer |-> <<>>]
      ELSE IF pushed = <<"d", "d">> THEN [chord |-> "Delete", buffer |-> <<>>]
      ELSE IF Len(pushed) = 2 \/ elapsed > CHORD_TIMEOUT
           THEN [chord |-> "None", buffer |-> <<event>>]
           ELSE [chord |-> "None", buffer |-> pushed]

\* run, lines 362-551: the arm of `match event` a key selects
SingleKeyAction(event) ==
  CASE event = "j"     -> "MoveDown"
    [] event = "k"     -> "MoveUp"
    [] event = "G"     -> "JumpToBottom"
    [] event = "q"     -> "Quit"
    [] event = "s"     -> "SortMode"
    [] event = "r"     -> "Rename"
    [] event = "n"     -> "Create"
    [] event = "Enter" -> "Open"
    [] OTHER           -> "None"

\* the actions of a key event with the arm `_ => {}` counted as one
Emitted_EveryArm(chord, event) ==
  (IF chord = "None" THEN <<>> ELSE <<chord>>) \o <<SingleKeyAction(event)>>

\* the logical actions one key event selects: the chord it completed, then
\* the arm of `match event`, which runs for every event
Emitted(chord, event) ==
  (IF chord = "None" THEN <<>> ELSE <<chord>>)
  \o (IF SingleKeyAction(event) = "None" THEN <<>> ELSE <<SingleKeyAction(event)>>)

\* run, lines 450-460 and 501-511: the path of a typed note name, with the
\* default extension when the name has none
NotePath(note_name) ==
  LET new_note_path == NotesDirectory \o note_name
  IN  IF HasExtension(new_note_path) THEN new_note_path
      ELSE new_note_path \o <<".">> \o DefaultFileExtension

\* the delete chord without the refusal
DeleteRefused_Never(note) == FALSE

\* run, line 328: the delete chord refuses a note whose path contains the
\* name of the default notes file
DeleteRefused(note) == Contains(note.path, DefaultNotesFile)

\* the rename prompt without the existence check
RenameAllowed_Always(fs, path) == TRUE

\* run, line 465: the rename prompt goes on to the provider with this path
RenameAllowed(fs, path) == ~note_exists(fs, path)

\* run, line 521: the create prompt goes on to the provider with this path
CreateAllowed(fs, path) == ~note_exists(fs, path)

Call(op, note_path, target, fs) ==
  [ op |-> op, note |-> note_path, target |-> target,
    target_exists |-> note_exists(fs, target) ]

----------------------------------------------------------------------------
(* The table columns and their widths *)

\* the decimal digits
DigitChars == <<"0", "1", "2", "3", "4", "5", "6", "7", "8", "9">>

\* u64::to_string
RECURSIVE to_string(_)
to_string(n) ==
  IF n < 10 THEN <<DigitChars[n + 1]>>
  ELSE to_string(n \div 10) \o <<DigitChars[(n % 10) + 1]>>

\* two decimal digits, zero padded (%m, %I, %M)
TwoDigits(n) == <<DigitChars[(n \div 10) + 1], DigitChars[(n % 10) + 1]>>

\* date.format(DATE_FORMAT), "%b %m %I:%M", of the time `modified` minutes
\* after 12:00 on the first of January
format_date(modified) ==
  <<"J", "a", "n", " ">> \o TwoDigits(1) \o <<" ">> \o TwoDigits(12)
  \o <<":">> \o TwoDigits(modified % 60)

\* "  [Default]"
default_indicator == <<" ", " ", "[", "D", "e", "f", "a", "u", "l", "t", "]">>

\* display_file_list: the columns of the table
Columns ==
  { [field |-> "Name",     name |-> <<"N", "a", "m", "e">>],
    [field |-> "Size",     name |-> <<"S", "i", "z", "e">>],
    [field |-> "Modified", name |-> <<"M", "o", "d", "i", "f", "i", "e", "d">>] }

\* Columnar for NoteEntry
get_value(row, column) ==
  CASE column.field = "Size"     -> to_string(row.size)
    [] column.field = "Name"     -> IF row.is_default
                                    THEN row.name \o default_indicator
                                    ELSE row.name
    [] column.field = "Modified" -> format_date(row.modified)

\* render.rs, the loop of get_column_width over rows[k..], from `width`
RECURSIVE ColumnWidthFrom(_, _, _, _)
ColumnWidthFrom(rows, column, k, width) ==
  IF k > Len(rows) THEN width
  ELSE LET col_w == Len(get_value(rows[k], column)) + 4
       IN  ColumnWidthFrom(rows, column, k + 1, IF col_w > width THEN col_w ELSE width)

\* render.rs TableDisplay::get_column_width
get_column_width(rows, column) ==
  ColumnWidthFrom(rows, column, 1, Len(column.name) + 4)

\* main.rs, the loop of get_column_width over rows[k..], from `width`
RECURSIVE MainColumnWidthFrom(_, _, _, _)
MainColumnWidthFrom(rows, column, k, width) ==
  IF k > Len(rows) THEN width
  ELSE LET value == get_value(rows[k], column)
       IN  MainColumnWidthFrom(rows, column, k + 1,
             IF Len(value) + Len(default_indicator) > width
             THEN Len(value) + Len(default_indicator) ELSE width)

\* main.rs TableDisplay::get_column_width, the one display_file_list draws
\* the session's table with
main_get_column_width(rows, column) == MainColumnWidthFrom(rows, column, 1, 0)

----------------------------------------------------------------------------
(* The main loop of run *)

RunInit ==
  /\ nav = NotInUse /\ phase = NotInUse
  /\ profile \in Builds
  /\ files \in InitialDirs
  /\ clock = Cardinality(files)
  /\ state = main_new(0)
  /\ note_list \in get_notes(files, state.sort_field, state.sort_dir)
  /\ key_buffer = <<>>
  /\ pc = "keys"
  /\ emitted = <<>>
  /\ called = <<>>
  /\ warning = "none"

\* the loop going on with the list it has
Refetch_Stale ==
  /\ UNCHANGED note_list
  /\ pc' = "keys"

\* lines 553-554: the list is fetched again and drawn, and the loop reads
\* the next key
Refetch ==
  /\ note_list' \in get_notes(files', state'.sort_field, state'.sort_dir)
  /\ pc' = "keys"

\* a panic or an Err returned ends run where it stands
Stop(how) ==
  /\ pc' = how
  /\ UNCHANGED <<state, files, note_list, clock>>

\* lines 310-360 for a key event that completes no chord, and the history of
\* the event
Accept(event, elapsed) ==
  /\ pc = "keys"
  /\ Dispatch(key_buffer, event, elapsed).chord = "None"
  /\ key_buffer' = Dispatch(key_buffer, event, elapsed).buffer
  /\ emitted' = Emitted("None", event)
  /\ called' = <<>>
  /\ warning' = "none"
  /\ UNCHANGED <<nav, phase, profile>>

\* lines 299-307: a key that cannot be read is skipped
KeyReadError ==
  /\ pc = "keys"
  /\ UNCHANGED vars

\* lines 312-314: gg
JumpToTopChord(elapsed) ==
  /\ pc = "keys"
  /\ Dispatch(key_buffer, "g", elapsed).chord = "JumpToTop"
  /\ key_buffer' = Dispatch(key_buffer, "g", elapsed).buffer
  /\ emitted' = Emitted("JumpToTop", "g")
  /\ called' = <<>>
  /\ warning' = "none"
  /\ state' = main_set_selected_index(state, 0)
  /\ UNCHANGED <<nav, phase, profile, files, clock>>
  /\ Refetch

\* lines 315-343: dd, up to the confirmation prompt
DeleteChord(elapsed) ==
  /\ pc = "keys"
  /\ Dispatch(key_buffer, "d", elapsed).chord = "Delete"
  /\ key_buffer' = Dispatch(key_buffer, "d", elapsed).buffer
  /\ emitted' = Emitted("Delete", "d")
  /\ called' = <<>>
  /\ UNCHANGED <<nav, phase, profile>>
  /\ IF state.selected_index >= Len(note_list)
     THEN Stop("panicked") /\ warning' = "none"
     ELSE LET note_to_del == note_list[state.selected_index + 1]
          IN  IF note_to_del.path = <<>>
              THEN /\ warning' = "empty path"
                   /\ UNCHANGED <<state, files, clock>>
                   /\ Refetch
              ELSE IF DeleteRefused(note_to_del)
              THEN /\ warning' = "cannot delete default"
                   /\ UNCHANGED <<state, files, clock>>
                   /\ Refetch
              ELSE /\ warning' = "none"
                   /\ pc' = "yesno"
                   /\ UNCHANGED <<state, files, note_list, clock>>

\* prompt_yesno, and lines 344-351 after its answer
YesNoKey(key) ==
  /\ pc = "yesno"
  /\ UNCHANGED <<nav, phase, profile, key_buffer, emitted, clock, warning>>
  /\ LET note_to_del == note_list[state.selected_index + 1]
     IN  CASE key \in {"y", "Y"} ->
                \E ok \in BOOLEAN :
                  /\ called' = <<Call("delete", note_to_del.path, note_to_del.path, files)>>
                  /\ IF ~ok
                     THEN /\ pc' = "failed"
                          /\ UNCHANGED <<state, files, note_list>>
                     ELSE /\ files' = delete_note(files, note_to_del)
                          /\ IF SubPanics(Len(note_list), 2)
                             THEN /\ pc' = "panicked"
                                  /\ UNCHANGED <<state, note_list>>
                             ELSE /\ state' =
                                       IF state.selected_index > WrappingSub(Len(note_list), 2)
                                       THEN main_set_selected_index(state,
                                              saturating_sub(state.selected_index, 1))
                                       ELSE state
                                  /\ Refetch
           [] key \in {"n", "N"} ->
                /\ called' = <<>>
                /\ UNCHANGED <<state, files>>
                /\ Refetch
           [] OTHER -> UNCHANGED <<state, files, note_list, pc, called>>

\* prompt_yesno: a key that cannot be read is returned as the error of run
YesNoReadError ==
  /\ pc = "yesno"
  /\ Stop("failed")
  /\ warning' = "none"
  /\ UNCHANGED <<nav, phase, profile, key_buffer, emitted, called>>

\* lines 363-368: j
MoveDown(elapsed) ==
  /\ Accept("j", elapsed)
  /\ IF SubPanics(Len(note_list), 1)
     THEN Stop("panicked")
     ELSE /\ state' = IF state.selected_index < WrappingSub(Len(note_list), 1)
                      THEN main_set_selected_index(state,
                             saturating_add(state.selected_index, 1))
                      ELSE state
          /\ RunFollowed(state'.selected_index)
          /\ UNCHANGED <<files, clock>>
          /\ Refetch

\* lines 369-374: k
MoveUp(elapsed) ==
  /\ Accept("k", elapsed)
  /\ state' = IF state.selected_index > 0
              THEN main_set_selected_index(state, saturating_sub(state.selected_index, 1))
              ELSE state
  /\ RunFollowed(state'.selected_index)
  /\ UNCHANGED <<files, clock>>
  /\ Refetch

\* lines 375-377: G
JumpToBottom(elapsed) ==
  /\ Accept("G", elapsed)
  /\ IF SubPanics(Len(note_list), 1)
     THEN Stop("panicked")
     ELSE /\ state' = main_set_selected_index(state, WrappingSub(Len(note_list), 1))
          /\ UNCHANGED <<files, clock>>
          /\ Refetch

\* lines 378-380: q leaves the loop
Quit(elapsed) ==
  /\ Accept("q", elapsed)
  /\ Stop("done")

\* lines 381-408: s writes the sort header and reads the sort key
EnterSortMode(elapsed) ==
  /\ Accept("s", elapsed)
  /\ pc' = "sort"
  /\ UNCHANGED <<state, files, note_list, clock>>

\* sort mode left by every key without a sort of its own
SortModeKey_AnyKeyLeaves(key) ==
  /\ pc = "sort"
  /\ UNCHANGED <<nav, phase, profile, key_buffer, emitted, called, files, clock,
                 warning>>
  /\ CASE key = "s" -> state' = main_sort(state, "Size") /\ Refetch
       [] key = "n" -> state' = main_sort(state, "Name") /\ Refetch
       [] key = "m" -> state' = main_sort(state, "Modified") /\ Refetch
       [] OTHER     -> UNCHANGED state /\ Refetch

\* lines 409-426
SortModeKey(key) ==
  /\ pc = "sort"
  /\ UNCHANGED <<nav, phase, profile, key_buffer, emitted, called, files, clock,
                 warning>>
  /\ CASE key = "s" -> state' = main_sort(state, "Size") /\ Refetch
       [] key = "n" -> state' = main_sort(state, "Name") /\ Refetch
       [] key = "m" -> state' = main_sort(state, "Modified") /\ Refetch
       [] OTHER     -> UNCHANGED <<state, note_list, pc>>

\* line 410: a key that cannot be read is returned as the error of run
SortModeReadError ==
  /\ pc = "sort"
  /\ Stop("failed")
  /\ warning' = "none"
  /\ UNCHANGED <<nav, phase, profile, key_buffer, emitted, called>>

\* lines 428-429: r takes the selected note and prompts for its new name
StartRename(elapsed) ==
  /\ Accept("r", elapsed)
  /\ IF state.selected_index >= Len(note_list)
     THEN Stop("panicked")
     ELSE /\ pc' = "rename"
          /\ UNCHANGED <<state, files, note_list, clock>>

\* lines 431-490: one line typed at the rename prompt
RenameLine(line) ==
  /\ pc = "rename"
  /\ UNCHANGED <<nav, phase, profile, key_buffer, emitted, clock>>
  /\ LET selected_note == note_list[state.selected_index + 1]
         note_name == Trim(line)
         new_note_path == NotePath(note_name)
     IN  IF note_name = <<>>
         THEN /\ warning' = "empty name"
              /\ called' = <<>>
              /\ UNCHANGED <<state, files, note_list, pc>>
         ELSE IF RenameAllowed(files, new_note_path)
         THEN \E ok \in BOOLEAN :
                /\ warning' = "none"
                /\ called' = <<Call("rename", selected_note.path, new_note_path, files)>>
                /\ IF ~ok
                   THEN /\ pc' = "failed"
                        /\ UNCHANGED <<state, files, note_list>>
                   ELSE /\ files' = rename_note(files, selected_note, new_note_path)
                        /\ state' = main_set_selected_index(state, 0)
                        /\ Refetch
         ELSE /\ warning' = "already exists"
              /\ called' = <<>>
              /\ UNCHANGED <<state, files, note_list, pc>>

\* prompt: a line that cannot be read is returned as the error of run
RenamePromptError ==
  /\ pc = "rename"
  /\ Stop("failed")
  /\ warning' = "none"
  /\ UNCHANGED <<nav, phase, profile, key_buffer, emitted, called>>

\* line 492: n prompts for the name of a new note
StartCreate(elapsed) ==
  /\ Accept("n", elapsed)
  /\ pc' = "create"
  /\ UNCHANGED <<state, files, note_list, clock>>

\* lines 493-540: one line typed at the create prompt
CreateLine(line) ==
  /\ pc = "create"
  /\ UNCHANGED <<nav, phase, profile, key_buffer, emitted>>
  /\ LET note_name == Trim(line)
         new_note_path == NotePath(note_name)
     IN  IF note_name = <<>>
         THEN /\ warning' = "none"
              /\ called' = <<>>
              /\ UNCHANGED <<state, files, clock>>
              /\ Refetch
         ELSE IF CreateAllowed(files, new_note_path)
         THEN \E ok \in BOOLEAN :
                /\ clock < MaxClock
                /\ warning' = "none"
                /\ called' = <<Call("create", new_note_path, new_note_path, files)>>
                /\ IF ~ok
                   THEN /\ pc' = "failed"
                        /\ UNCHANGED <<state, files, note_list, clock>>
                   ELSE /\ files' = create_note(files, new_note_path, clock)
                        /\ clock' = clock + 1
                        /\ state' = main_set_selected_index(state, 0)
                        /\ Refetch
         ELSE /\ warning' = "already exists"
              /\ called' = <<>>
              /\ UNCHANGED <<state, files, note_list, pc, clock>>

\* prompt: a line that cannot be read is returned as the error of run
CreatePromptError ==
  /\ pc = "create"
  /\ Stop("failed")
  /\ warning' = "none"
  /\ UNCHANGED <<nav, phase, profile, key_buffer, emitted, called>>

\* lines 542-549: Enter opens the selected note in the editor; launch_editor
\* panics when the editor cannot be started
OpenEditor(elapsed) ==
  /\ Accept("Enter", elapsed)
  /\ IF state.selected_index >= Len(note_list)
     THEN Stop("panicked")
     ELSE \E launched \in BOOLEAN :
            IF launched
            THEN UNCHANGED <<state, files, clock>> /\ Refetch
            ELSE Stop("panicked")

\* line 550: a key without a binding, and a 'd' or 'g' that completes no
\* chord
OtherKey(event, elapsed) ==
  /\ SingleKeyAction(event) = "None"
  /\ Accept(event, elapsed)
  /\ UNCHANGED <<state, files, clock>>
  /\ Refetch

RunNext ==
  \/ KeyReadError
  \/ \E elapsed \in Elapsed : JumpToTopChord(elapsed)
  \/ \E elapsed \in Elapsed : DeleteChord(elapsed)
  \/ \E key \in YesNoKeys : YesNoKey(key)
  \/ YesNoReadError
  \/ \E elapsed \in Elapsed : MoveDown(elapsed)
  \/ \E elapsed \in Elapsed : MoveUp(elapsed)
  \/ \E elapsed \in Elapsed : JumpToBottom(elapsed)
  \/ \E elapsed \in Elapsed : Quit(elapsed)
  \/ \E elapsed \in Elapsed : EnterSortMode(elapsed)
  \/ \E key \in SortModeKeys : SortModeKey(key)
  \/ SortModeReadError
  \/ \E elapsed \in Elapsed : StartRename(elapsed)
  \/ \E line \in Lines : RenameLine(line)
  \/ RenamePromptError
  \/ \E elapsed \in Elapsed : StartCreate(elapsed)
  \/ \E line \in Lines : CreateLine(line)
  \/ CreatePromptError
  \/ \E elapsed \in Elapsed : OpenEditor(elapsed)
  \/ \E event \in Keys, elapsed \in Elapsed : OtherKey(event, elapsed)

RunSpec == RunInit /\ [][RunNext]_vars

----------------------------------------------------------------------------
(* Claims on the navigation state *)

InWindow(s) ==
  /\ s.visible_window[1] <= s.selected_index
  /\ s.selected_index <= s.visible_window[2]

\* C1: with list_size fixed, the selection is inside the viewport after every
\* increment / decrement call.  Stated for the states in which list_size has
\* not been set since the first selection move.
C1_SelectionInWindow == phase # "resized" => InWindow(nav)

Min(a, b) == IF a <= b THEN a ELSE b

\* the row of the selection is in the body drawn, and it alone is highlighted
SelectionShown(body, selected_index) ==
  /\ \E k \in 1..Len(body) : body[k].index = selected_index
  /\ \A k \in 1..Len(body) : body[k].highlight <=> (body[k].index = selected_index)

\* C2: on a non-empty list whose size was fixed before the selection moved,
\* with the selection on a row of the list and a window of more than
\* window_buffer rows, the body drawn contains the selected row and
\* highlights only it.
C2_SelectionVisible ==
  ( /\ phase # "resized"
    /\ nav.list_size > 0
    /\ nav.selected_index < nav.list_size
    /\ get_window_size(nav) >= WINDOW_BUFFER )
  => \A build \in Builds : SelectionShown(draw(nav, build), nav.selected_index)

\* C5: selected_index < list_size whenever list_size > 0, in every state
\* reachable through set_list_size, increment, decrement, set_selected_index
\* and sort from new(0).
\* Stated for the selections that fit in 16 bits.
C5_SelectionInList ==
  (nav.list_size > 0 /\ nav.selected_index < U16) => nav.selected_index < nav.list_size

\* C6: set_list_size(n), n > 0, clamps selected_index to
\* min(selected_index, n - 1) and leaves the viewport containing it.  Stated
\* for calls made with the selection inside the viewport.
C6_SetListSizeClamps ==
  [][ \A n \in ListSizes \ {0} :
        (InWindow(nav) /\ SetListSize(n)) =>
          /\ nav'.selected_index = Min(nav.selected_index, n - 1)
          /\ InWindow(nav') ]_vars

Opposite(d) == IF d = "Desc" THEN "Asc" ELSE "Desc"

\* C7: sort(field) from (f, d) gives (field, Desc) when field # f, whatever d
\* is, and (f, opposite of d) when field = f.
C7_SortToggle ==
  [][ \A field \in SortFields :
        Sort(field) =>
          /\ nav'.sort_field = field
          /\ nav'.sort_dir = IF nav.sort_field = field
                             THEN Opposite(nav.sort_dir) ELSE "Desc" ]_vars

\* C7 witness: Name sorted twice in a row (the second call toggled to Asc)
C7_Witness == nav.sort_field = "Name" /\ nav.sort_dir = "Asc"

----------------------------------------------------------------------------
(* Claims on the main loop *)

\* the step is the main loop's handling of key `event`, read `elapsed`
\* milliseconds after the previous key was accepted
KeyStep(event, elapsed) ==
  \/ event = "g" /\ JumpToTopChord(elapsed)
  \/ event = "d" /\ DeleteChord(elapsed)
  \/ OtherKey(event, elapsed)

\* C3: a 'd' more than the chord timeout after a first 'd' (a 'g' after a
\* first 'g') completes no chord: no Delete (no JumpToTop) is selected and
\* the buffer holds the second key alone.
C3_LateChordDoesNotFire ==
  [][ \A event \in {"d", "g"} : \A elapsed \in Elapsed :
        ( /\ elapsed > CHORD_TIMEOUT
          /\ key_buffer = <<event>>
          /\ KeyStep(event, elapsed) )
        => /\ emitted' = <<>>
           /\ key_buffer' = <<event>> ]_vars

\* C4: of two 'd' events within the chord timeout, starting from an empty
\* buffer, the first selects no action and leaves <<d>> pending, and the
\* second selects Delete, once, and leaves the buffer empty.
C4_ChordWithinTimeout ==
  [][ \A elapsed \in Elapsed :
        /\ (key_buffer = <<>> /\ KeyStep("d", elapsed))
           => (emitted' = <<>> /\ key_buffer' = <<"d">>)
        /\ (elapsed <= CHORD_TIMEOUT /\ key_buffer = <<"d">> /\ KeyStep("d", elapsed))
           => (emitted' = <<"Delete">> /\ key_buffer' = <<>>) ]_vars

\* C4 witness: the delete chord has fired on a note that may be deleted and
\* the confirmation is pending
C4_Witness == pc = "yesno" /\ emitted = <<"Delete">> /\ key_buffer = <<>>

\* C8: the session starts with selected_index 0 and sort state
\* (Modified, Desc).  No key event has been handled exactly when nothing is
\* in the key buffer and no action has been selected.
C8_SessionStart ==
  (key_buffer = <<>> /\ emitted = <<>>)
  => state = [selected_index |-> 0, sort_field |-> "Modified", sort_dir |-> "Desc"]

DefaultNotesPath == NotesDirectory \o DefaultNotesFile

\* C9: the provider's delete is never called on the default notes file, and
\* its rename and create are never called with a target path that exists.
C9_ProtectedItem ==
  \A k \in 1..Len(called) :
    /\ called[k].op = "delete" => called[k].note # DefaultNotesPath
    /\ called[k].op \in {"rename", "create"} => ~called[k].target_exists

\* C9 witness: the delete chord on the default notes file was refused
C9_Witness ==
  /\ pc = "keys" /\ emitted = <<"Delete">> /\ warning = "cannot delete default"
  /\ called = <<>>
  /\ state.selected_index < Len(note_list)
  /\ note_list[state.selected_index + 1].is_default

\* C10: a name typed at the rename prompt whose path exists calls neither
\* rename nor create, and leaves the directory, the item list and the
\* selection as they were (the prompt warns and asks again).
C10_RenameToExisting ==
  [][ \A line \in Lines :
        ( /\ pc = "rename"
          /\ Trim(line) # <<>>
          /\ note_exists(files, NotePath(Trim(line)))
          /\ RenameLine(line) )
        => /\ called' = <<>>
           /\ files' = files
           /\ note_list' = note_list
           /\ state' = state
           /\ pc' = "rename"
           /\ warning' = "already exists" ]_vars

\* C10 witness: the rename prompt has refused a name that exists
C10_Witness == pc = "rename" /\ warning = "already exists" /\ called = <<>>

\* C11: a provider delete, rename or create that returns an error does not
\* end the main loop: the step writes a warning, leaves the navigation state
\* as it was and goes on to read the next key.  A step called the provider
\* and got an error when it made a call and the directory is unchanged.
C11_ProviderErrorNotFatal ==
  [][ (called' # <<>> /\ files' = files)
      => /\ pc' = "keys"
         /\ state' = state
         /\ warning' # "none" ]_vars

\* C12: a key that cannot be read in sort mode or at the yes/no confirmation
\* is skipped: the same read goes on, with the state unchanged.
C12_KeyReadErrorSkipped ==
  [][ (SortModeReadError \/ YesNoReadError)
      => /\ pc' = pc
         /\ state' = state ]_vars

\* the name typed on `line` fails the validation of the prompts: it is empty
\* or its path exists
Invalid(line) ==
  \/ Trim(line) = <<>>
  \/ note_exists(files, NotePath(Trim(line)))

\* C13: a line that fails validation at the rename or the create prompt is
\* answered by the same prompt again: the prompt is not left, no error is
\* returned and the provider is not called.
C13_InvalidNameReprompts ==
  [][ \A line \in Lines :
        (Invalid(line) /\ (RenameLine(line) \/ CreateLine(line)))
        => /\ pc' = pc
           /\ called' = <<>> ]_vars

\* the largest of a non-empty set of numbers
MaxOf(S) == CHOOSE x \in S : \A y \in S : y <= x

\* the width C14 prescribes for a column of a list of rows
PrescribedWidth(rows, column) ==
  MaxOf({Len(column.name)}
        \cup {Len(get_value(rows[k], column)) : k \in 1..Len(rows)}) + 4

\* C14: for every column, the width the table is drawn with is
\* max(label length, longest rendered value over all rows of the list) + 4.
\* Stated for the list the main loop has just drawn, for the get_column_width
\* of render.rs and the one of main.rs.
C14_ColumnWidth ==
  pc = "keys" =>
    \A column \in Columns :
      /\ get_column_width(note_list, column) = PrescribedWidth(note_list, column)
      /\ main_get_column_width(note_list, column) = PrescribedWidth(note_list, column)

----------------------------------------------------------------------------
(* Claims on the viewport *)

\* C15: no step of the navigation state changes the size of the viewport,
\* visible_window.1 - visible_window.0, which is therefore the one of
\* construction in every reachable state.
C15_WindowSizeConstant ==
  [][ get_window_size(nav') = get_window_size(nav) ]_vars

\* C15 witness: the viewport has slid down and back up but not to the top
C15_Witness ==
  /\ nav.visible_window[1] > 0
  /\ nav.selected_index < nav.visible_window[2]
  /\ nav.selected_index < U16

\* C16: a key event selects at most one logical action: the event that
\* completes gg or dd selects the chord's action and no single-key action.
C16_OneActionPerEvent ==
  /\ Len(emitted) <= 1
  /\ (key_buffer = <<>> /\ emitted # <<>>) => emitted \in {<<"JumpToTop">>, <<"Delete">>}

\* C16 witness: the key event handled last completed gg
C16_Witness == pc = "keys" /\ emitted = <<"JumpToTop">> /\ key_buffer = <<>>

\* the example of C17: list size 10, window [0,4], buffer 2, selection 0
RECURSIVE StepDown(_, _)
StepDown(s, times) ==
  IF times = 0 THEN s ELSE StepDown(increment_selected_index(s, 1), times - 1)

C17_Example ==
  LET s0 == set_list_size(new(0, 7), 10)
  IN  /\ s0.visible_window = <<0, 4>> /\ s0.window_buffer = 2
      /\ \A k \in 1..4 : /\ StepDown(s0, k).selected_index = k
                         /\ StepDown(s0, k).visible_window = <<0, 4>>
      /\ StepDown(s0, 5).selected_index = 5
      /\ StepDown(s0, 5).visible_window = <<1, 5>>

\* C17: a step down of one row leaves the viewport where it is while the new
\* selection is <= viewport.end, and slides it by exactly one row when the
\* new selection is viewport.end + 1; the example of the claim computes as
\* the claim says.
C17_StepDownSlidesByOne ==
  [][ ( /\ nav' = increment_selected_index(nav, 1)
        /\ nav'.selected_index = nav.selected_index + 1 )
      => /\ C17_Example
         /\ nav'.selected_index <= nav.visible_window[2]
            => nav'.visible_window = nav.visible_window
         /\ nav'.selected_index = nav.visible_window[2] + 1
            => nav'.visible_window = <<nav.visible_window[1] + 1,
                                       nav.visible_window[2] + 1>> ]_vars

\* C17 witness: the state after the fifth step of the example
C17_Witness ==
  /\ nav.list_size = 10 /\ nav.selected_index = 5
  /\ nav.visible_window = <<1, 5>>

\* C18: after an increment that moves the selection to i, the bottom margin
\* is restored: i + window_buffer <= viewport.end, or the window has reached
\* the end of the list.  Stated for calls on a state whose selection is in
\* the list and in the window, with a window of window_buffer rows or more.
C18_BottomMarginRestored ==
  [][ \A by \in Deltas :
        ( /\ nav.selected_index < nav.list_size
          /\ InWindow(nav)
          /\ get_window_size(nav) >= nav.window_buffer
          /\ nav' = increment_selected_index(nav, by)
          /\ nav'.selected_index # nav.selected_index )
        => \/ nav'.selected_index + nav'.window_buffer <= nav'.visible_window[2]
           \/ nav'.visible_window[2] >= nav'.list_size - 1 ]_vars

\* the top margin of C19 for a window starting at window_start
TopMargin(window_start, window_buffer, i) ==
  window_start + window_buffer <= i \/ window_start = 0

\* C19: after a decrement that moves the selection to i, viewport.start +
\* window_buffer <= i or viewport.start = 0, and the new viewport.start is
\* the largest value not above the old one for which this holds.
C19_TopMarginMinimalSlide ==
  [][ \A by \in Deltas :
        ( /\ nav' = decrement_selected_index(nav, by)
          /\ nav'.selected_index # nav.selected_index )
        => LET i == nav'.selected_index
               window_start == nav'.visible_window[1]
           IN  /\ TopMargin(window_start, nav.window_buffer, i)
               /\ window_start <= nav.visible_window[1]
               /\ \A w \in (window_start + 1)..nav.visible_window[1] :
                     ~TopMargin(w, nav.window_buffer, i) ]_vars

\* C20: an increment or a decrement that changes the viewport leaves it
\* inside the list: viewport.start >= 0 and viewport.end <= list_size - 1.
\* Stated for calls with the selection below 2^16 before and after, and a
\* window of window_buffer rows or more.
C20_SlideStaysInList ==
  [][ \A by \in Deltas :
        ( /\ nav.selected_index < U16
          /\ get_window_size(nav) >= nav.window_buffer
          /\ \/ nav' = increment_selected_index(nav, by)
             \/ nav' = decrement_selected_index(nav, by)
          /\ nav'.selected_index < U16
          /\ nav'.visible_window # nav.visible_window )
        => /\ nav'.visible_window[1] >= 0
           /\ nav'.visible_window[2] <= nav'.list_size - 1 ]_vars

----------------------------------------------------------------------------
(* Claims on the rows drawn *)

\* the list indices of the rows of a body
Indices(body) == {body[k].index : k \in 1..Len(body)}

\* C21: the rows draw emits are exactly the rows of the list inside the
\* viewport, { i : viewport.start <= i <= viewport.end, i < number of rows }.
\* Stated for the windows of window_buffer rows or more, for which h2 - 2
\* stays in u16.
C21_DrawEmitsViewport ==
  get_window_size(nav) >= WINDOW_BUFFER
  => \A build \in Builds :
       Indices(draw(nav, build))
         = {i \in 0..(nav.list_size - 1) :
              nav.visible_window[1] <= i /\ i <= nav.visible_window[2]}

\* the body rows of a draw go to terminal rows 2, 3, ... in order, all above
\* the footer's row
BodyAboveFooter(s, build) ==
  LET body == draw(s, build)
  IN  \A k \in 1..Len(body) : body[k].row = k + 1 /\ body[k].row < draw_footer(s)

\* C22: the footer's terminal row is the same in every navigation state, and
\* greater than the terminal row of every body row a draw emits.
C22_FooterBelowBody ==
  [][ /\ draw_footer(nav') = draw_footer(nav)
      /\ \A build \in Builds :
           ~DrawPanics(nav', build) => BodyAboveFooter(nav', build) ]_vars

----------------------------------------------------------------------------
(* Claims on the key buffer and the list of the main loop *)

\* the step is the main loop's handling of key `event`, whatever the key
EventStep(event, elapsed) ==
  \/ KeyStep(event, elapsed)
  \/ event = "j" /\ MoveDown(elapsed)
  \/ event = "k" /\ MoveUp(elapsed)
  \/ event = "G" /\ JumpToBottom(elapsed)
  \/ event = "q" /\ Quit(elapsed)
  \/ event = "s" /\ EnterSortMode(elapsed)
  \/ event = "r" /\ StartRename(elapsed)
  \/ event = "n" /\ StartCreate(elapsed)
  \/ event = "Enter" /\ OpenEditor(elapsed)

\* C23: after a key event the key buffer is empty, the event having
\* completed a chord, or holds the event's key alone; with the key pushed it
\* never holds more than two keys.
C23_KeyBufferAfterEvent ==
  [][ \A event \in Keys : \A elapsed \in Elapsed :
        EventStep(event, elapsed)
        => /\ Len(Append(key_buffer, event)) <= 2
           /\ \/ key_buffer' = <<>> /\ emitted' \in {<<"JumpToTop">>, <<"Delete">>}
              \/ key_buffer' = <<event>> ]_vars

\* C23 witness: the buffer holds the key of the last event alone
C23_Witness == pc = "keys" /\ key_buffer = <<"j">> /\ emitted = <<"MoveDown">>

\* the main loop is blocked reading input
Reading == pc \in {"keys", "yesno", "sort", "rename", "create"}

\* C24: whenever the main loop reads input, its list is the provider's
\* listing of the directory as it is, in the state's sort field and
\* direction: the list was fetched after the last event that changed either.
C24_ListIsFresh ==
  Reading => note_list \in get_notes(files, state.sort_field, state.sort_dir)

\* C24 witness: a note was created and the list holds it, in an order
\* chosen in sort mode
C24_Witness ==
  /\ pc = "keys"
  /\ Len(note_list) = 3
  /\ state.sort_field = "Name"

----------------------------------------------------------------------------
(* Claims on what the operations of the navigation state leave alone *)

\* C25: sort(field) changes sort_field and sort_dir only: selected_index,
\* list_size, the viewport and the viewport buffer are as before.
C25_SortFrame ==
  [][ \A f \in SortFields :
        Sort(f) => /\ nav'.selected_index = nav.selected_index
                   /\ nav'.list_size = nav.list_size
                   /\ nav'.visible_window = nav.visible_window
                   /\ nav'.window_buffer = nav.window_buffer ]_vars

\* C25 witness: the list was sorted with the selection and the viewport
\* away from the top
C25_Witness ==
  /\ nav.sort_field = "Size"
  /\ nav.selected_index > 0 /\ nav.selected_index < U16
  /\ nav.visible_window[1] > 0

\* C26: set_list_size(n) changes list_size only, also for n below
\* selected_index + 1.
C26_SetListSizeFrame ==
  [][ \A n \in ListSizes :
        SetListSize(n) => nav' = [nav EXCEPT !.list_size = n] ]_vars

\* C26 witness: the list was made shorter than the selection
C26_Witness ==
  /\ phase = "resized"
  /\ nav.list_size > 0
  /\ nav.list_size <= nav.selected_index /\ nav.selected_index < U16

\* C27: for i < list_size, set_selected_index(i) ends with selected_index = i
\* and i in the viewport, and a second set_selected_index(i) changes nothing.
C27_SetSelectedIdempotent ==
  [][ \A i \in ListSizes :
        (i < nav.list_size /\ SetSelected(i))
        => /\ nav'.selected_index = i
           /\ InWindow(nav')
           /\ set_selected_index(nav', i) = nav' ]_vars

\* C28: increment_selected_index(by) with selected_index + by >= list_size
\* changes nothing, and decrement_selected_index(by) with by > selected_index
\* leaves the selection at 0.
C28_OutOfRangeMoves ==
  [][ \A by \in Deltas :
        /\ (nav.selected_index + by >= nav.list_size /\ Increment(by))
           => nav' = nav
        /\ (by > nav.selected_index /\ Decrement(by))
           => nav'.selected_index = 0 ]_vars

----------------------------------------------------------------------------
(* Claims on the notes after a delete, a rename or a create *)

\* C29: after a confirmed delete the loop goes on with a selection below the
\* length of the list fetched next: one row up when the last row was
\* deleted, the same index otherwise.
C29_SelectionAfterDelete ==
  [][ ( /\ pc = "yesno"
        /\ called' # <<>>
        /\ files' # files )
      => /\ pc' = "keys"
         /\ state'.selected_index < Len(note_list')
         /\ state'.selected_index =
              IF state.selected_index = Len(note_list) - 1
              THEN state.selected_index - 1
              ELSE state.selected_index ]_vars

\* C30: the directory holds a file named as the default notes file, whatever
\* was created, renamed and deleted through the key bindings.
C30_DefaultNoteStays ==
  \E f \in files : f.name = DefaultNotesFile

----------------------------------------------------------------------------
(* Claims on the delete chord, the 16-bit index and sort mode *)

\* the note the selection is on
SelectedNote == note_list[state.selected_index + 1]

\* C31: the delete chord on a note that is not the default notes file and
\* has a path asks for the confirmation (stated for a directory that holds
\* the default notes file); the answer yes calls the provider's
\* delete once, for the selected note; the answer no calls nothing and
\* leaves the selection, the sort state and the directory as they were.
C31_DeleteRefusedOnlyForDefault ==
  [][ /\ \A elapsed \in Elapsed :
           ( /\ DeleteChord(elapsed)
             /\ \E f \in files : f.name = DefaultNotesFile
             /\ state.selected_index < Len(note_list)
             /\ ~SelectedNote.is_default
             /\ SelectedNote.path # <<>> )
           => pc' = "yesno" /\ warning' = "none"
      /\ \A key \in {"y", "Y"} :
           YesNoKey(key)
           => /\ Len(called') = 1
              /\ called'[1].op = "delete"
              /\ called'[1].note = SelectedNote.path
      /\ \A key \in {"n", "N"} :
           YesNoKey(key)
           => /\ called' = <<>>
              /\ state' = state
              /\ files' = files
              /\ pc' = "keys" ]_vars

\* C32: increment_selected_index, whatever the increment, leaves
\* selected_index < list_size when that held before the call, and the sum of
\* the 16-bit new index and the viewport buffer stays below 2^16.
C32_IncrementStaysInList ==
  [][ \A by \in Deltas :
        (nav.selected_index < nav.list_size /\ Increment(by))
        => /\ nav'.selected_index < nav'.list_size
           /\ AsU16(nav.selected_index + by) + nav.window_buffer < U16 ]_vars

\* the field each key of sort mode sorts by
SortModeField(key) ==
  CASE key = "n" -> "Name" [] key = "s" -> "Size" [] key = "m" -> "Modified"

\* C33: in sort mode the keys n, s and m sort once, by Name, Size and
\* Modified, and leave the mode; every other key leaves the sort state and
\* the selection as they were and the program in sort mode.
C33_SortModeKeys ==
  [][ \A key \in SortModeKeys :
        SortModeKey(key)
        => IF key \in {"n", "s", "m"}
           THEN /\ pc' = "keys"
                /\ state'.sort_field = SortModeField(key)
                /\ state'.sort_dir = IF state.sort_field = SortModeField(key)
                                     THEN Opposite(state.sort_dir) ELSE "Desc"
                /\ state'.selected_index = state.selected_index
           ELSE /\ pc' = "sort"
                /\ state' = state ]_vars

\* C33 witness: sort mode was left with 'n' from the session's first order
C33_Witness ==
  /\ pc = "keys"
  /\ emitted = <<"SortMode">>
  /\ state.sort_field = "Name" /\ state.sort_dir = "Desc"

====
